---- MODULE Spec2Model ----
(***************************************************************************)
(* A model of the cgp-patterns crate: the App context, its provider        *)
(* registries (delegate_components!), the error raiser / wrapper           *)
(* providers, the LoadJsonConfig provider of load_config, and main.        *)
(*                                                                         *)
(* Three specifications share the variables:                               *)
(*   Spec      one call of load_config on an App with any config path,     *)
(*   MainSpec  the binary's main(): construct App, load_config, unwrap,    *)
(*   WrapSpec  wrap_error applied repeatedly to a raised error.            *)
(***************************************************************************)
EXTENDS Naturals, Sequences, FiniteSets, TLC

VARIABLES
    app,          \* the App context: [config_path |-> path], or NoApp before construction
    fs,           \* the file system: path -> file state
    pc,           \* position of the running code
    config_path,  \* load_config's local `config_path` (borrowed from the context)
    config_bytes, \* load_config's local `config_bytes`
    source_error, \* the `e` handed to the map_err closure
    action,       \* the LoadJsonConfigAction of the closure that is running
    error,        \* the unified error (anyhow::Error) under construction
    result,       \* what load_config returned
    trace,        \* history of the calls made so far (ghost)
    process       \* the process's exit status and stderr (main)

vars == <<app, fs, pc, config_path, config_bytes, source_error, action, error,
          result, trace, process>>

(***************************************************************************)
(* Bounds of the model.                                                    *)
(***************************************************************************)
\* longest file content, in JSON tokens
MaxLen == 5
\* most wrap_error calls stacked on one error in WrapSpec
MaxWraps == 2

\* Option<T>: None is the empty sequence, Some(v) the sequence of v
None == <<>>

Some(v) == <<v>>

(***************************************************************************)
(* Paths.  A PathBuf is a sequence of units: a run of UTF-8 text, or a     *)
(* byte that is not valid UTF-8.  Path::display() is lossy: it renders an  *)
(* invalid byte as U+FFFD.                                                 *)
(***************************************************************************)
InvalidBytes == {"\\xFF", "\\xFE"}

ReplacementChar == "<U+FFFD>"

MainConfigPath == <<"Cargo.toml">>

Paths == {MainConfigPath, <<"conf", "\\xFF", ".json">>}

RECURSIVE Display(_)
Display(path) ==
    IF path = <<>> THEN ""
    ELSE (IF Head(path) \in InvalidBytes THEN ReplacementChar ELSE Head(path))
         \o Display(Tail(path))

(***************************************************************************)
(* JSON text, as a sequence of tokens.  A string token carries the raw     *)
(* characters between its quotes (escapes not yet decoded).                *)
(***************************************************************************)
Punct(c) == [t |-> c, raw |-> <<>>]

StrTok(raw) == [t |-> "str", raw |-> raw]

NumTok == [t |-> "num", raw |-> <<"1">>]

Backslash == "\\"

Quote == "\""

\* serde_json's string writer: escape the quote and the backslash
RECURSIVE Escape(_)
Escape(s) ==
    IF s = <<>> THEN <<>>
    ELSE (IF Head(s) \in {Quote, Backslash} THEN <<Backslash, Head(s)>> ELSE <<Head(s)>>)
         \o Escape(Tail(s))

SerdeError(category, code) ==
    [type |-> "serde_json::Error", category |-> category, code |-> code]

\* a string reader that leaves the escapes in place
Unescape_raw(raw) == [ok |-> TRUE, val |-> raw]

\* serde_json's string reader: decode the escapes of a raw string
RECURSIVE Unescape(_)
Unescape(raw) ==
    IF raw = <<>> THEN [ok |-> TRUE, val |-> <<>>]
    ELSE IF Head(raw) = Quote
         THEN [ok |-> FALSE, err |-> SerdeError("Syntax", "ExpectedSomeValue")]
    ELSE IF Head(raw) # Backslash
         THEN LET rest == Unescape(Tail(raw))
              IN  IF rest.ok THEN [ok |-> TRUE, val |-> <<Head(raw)>> \o rest.val]
                  ELSE rest
    ELSE IF Len(raw) = 1
         THEN [ok |-> FALSE, err |-> SerdeError("Eof", "EofWhileParsingString")]
    ELSE IF raw[2] \notin {Quote, Backslash}
         THEN [ok |-> FALSE, err |-> SerdeError("Syntax", "InvalidEscape")]
    ELSE LET rest == Unescape(Tail(Tail(raw)))
         IN  IF rest.ok THEN [ok |-> TRUE, val |-> <<raw[2]>> \o rest.val]
             ELSE rest

(***************************************************************************)
(* The config type of App: AppConfig { secret: String }.                   *)
(***************************************************************************)
SecretKey == <<"s", "e", "c", "r", "e", "t">>

AppConfig(secret) == [secret |-> secret]

\* the strings the bounded model writes into files
StringValues == {SecretKey, <<Quote>>}

ConfigValues == {AppConfig(s) : s \in StringValues}

\* the JSON encoding of a config value: {"secret":"..."}
ToJson(c) ==
    <<Punct("{"), StrTok(Escape(SecretKey)), Punct(":"), StrTok(Escape(c.secret)),
      Punct("}")>>

\* the tokens files are made of: objects, strings (one needing an escape) and a
\* number; arrays, whitespace and the literals true, false, null are left out
Tokens ==
    {Punct(c) : c \in {"{", "}", ":", ","}}
        \cup {StrTok(Escape(s)) : s \in StringValues} \cup {NumTok}

FileContents == UNION {[1..n -> Tokens] : n \in 0..MaxLen}

(***************************************************************************)
(* serde_json::from_slice::<AppConfig>: the derived Deserialize of a       *)
(* struct with the one field `secret`, reading a JSON object.  Unknown     *)
(* keys are skipped with their values; a second `secret` is an error.      *)
(***************************************************************************)
Fail(category, code) == [ok |-> FALSE, err |-> SerdeError(category, code)]

\* Deserializer::peek_invalid_type: the error for a value of the wrong type
PeekInvalidType(toks, i) ==
    IF toks[i].t = "str"
    THEN LET s == Unescape(toks[i].raw)
         IN  IF s.ok THEN Fail("Data", "InvalidType") ELSE s
    ELSE IF toks[i].t \in {"num", "{"} THEN Fail("Data", "InvalidType")
    ELSE Fail("Syntax", "ExpectedSomeValue")

RECURSIVE IgnoreValue(_, _), IgnoreMembers(_, _, _)
\* Deserializer::ignore_value: skip one JSON value starting at token i
IgnoreValue(toks, i) ==
    IF i > Len(toks) THEN Fail("Eof", "EofWhileParsingValue")
    ELSE IF toks[i].t = "str"
         THEN LET s == Unescape(toks[i].raw)
              IN  IF s.ok THEN [ok |-> TRUE, next |-> i + 1] ELSE s
    ELSE IF toks[i].t = "num" THEN [ok |-> TRUE, next |-> i + 1]
    ELSE IF toks[i].t = "{" THEN IgnoreMembers(toks, i + 1, TRUE)
    ELSE Fail("Syntax", "ExpectedSomeValue")

IgnoreMembers(toks, i, first) ==
    IF i > Len(toks) THEN Fail("Eof", "EofWhileParsingObject")
    ELSE IF toks[i].t = "}" THEN [ok |-> TRUE, next |-> i + 1]
    ELSE IF ~first /\ toks[i].t # "," THEN Fail("Syntax", "ExpectedObjectCommaOrEnd")
    ELSE LET k == IF first THEN i ELSE i + 1
         IN  IF k > Len(toks) THEN Fail("Eof", "EofWhileParsingObject")
             ELSE IF toks[k].t # "str" THEN Fail("Syntax", "KeyMustBeAString")
             ELSE IF ~Unescape(toks[k].raw).ok THEN Unescape(toks[k].raw)
             ELSE IF k + 1 > Len(toks) THEN Fail("Eof", "EofWhileParsingObject")
             ELSE IF toks[k + 1].t # ":" THEN Fail("Syntax", "ExpectedColon")
             ELSE LET v == IgnoreValue(toks, k + 2)
                  IN  IF v.ok THEN IgnoreMembers(toks, v.next, FALSE) ELSE v

\* String::deserialize: the value of the field `secret`
DeserializeString(toks, i) ==
    IF i > Len(toks) THEN Fail("Eof", "EofWhileParsingValue")
    ELSE IF toks[i].t = "str"
         THEN LET s == Unescape(toks[i].raw)
              IN  IF s.ok THEN [ok |-> TRUE, val |-> s.val, next |-> i + 1] ELSE s
    ELSE PeekInvalidType(toks, i)

RECURSIVE VisitMap(_, _, _, _)
\* the derived Visitor::visit_map over MapAccess: `secret` is an Option<String>
VisitMap(toks, i, first, secret) ==
    IF i > Len(toks) THEN Fail("Eof", "EofWhileParsingObject")
    ELSE IF toks[i].t = "}"
         THEN IF secret = None THEN Fail("Data", "MissingField")
              ELSE [ok |-> TRUE, val |-> AppConfig(secret[1]), next |-> i]
    ELSE IF ~first /\ toks[i].t # "," THEN Fail("Syntax", "ExpectedObjectCommaOrEnd")
    ELSE LET k == IF first THEN i ELSE i + 1
         IN  IF k > Len(toks) THEN Fail("Eof", "EofWhileParsingValue")
             ELSE IF ~first /\ toks[k].t = "}" THEN Fail("Syntax", "TrailingComma")
             ELSE IF toks[k].t # "str" THEN Fail("Syntax", "KeyMustBeAString")
             ELSE LET key == Unescape(toks[k].raw)
                  IN  IF ~key.ok THEN key
                      ELSE IF key.val = SecretKey /\ secret # None
                           THEN Fail("Data", "DuplicateField")
                      ELSE IF k + 1 > Len(toks) THEN Fail("Eof", "EofWhileParsingObject")
                      ELSE IF toks[k + 1].t # ":" THEN Fail("Syntax", "ExpectedColon")
                      ELSE IF key.val = SecretKey
                           THEN LET v == DeserializeString(toks, k + 2)
                                IN  IF v.ok THEN VisitMap(toks, v.next, FALSE, Some(v.val))
                                    ELSE v
                      ELSE LET v == IgnoreValue(toks, k + 2)
                           IN  IF v.ok THEN VisitMap(toks, v.next, FALSE, secret)
                               ELSE v

\* serde_json::from_slice: deserialize_struct, end_map, then Deserializer::end
FromSlice(toks) ==
    IF toks = <<>> THEN Fail("Eof", "EofWhileParsingValue")
    ELSE IF toks[1].t # "{" THEN PeekInvalidType(toks, 1)
    ELSE LET m == VisitMap(toks, 2, TRUE, None)
         IN  IF ~m.ok THEN m
             ELSE IF m.next + 1 <= Len(toks) THEN Fail("Syntax", "TrailingCharacters")
             ELSE [ok |-> TRUE, val |-> m.val]

(***************************************************************************)
(* The file system and std::fs::read.                                      *)
(***************************************************************************)
IoError(kind) == [type |-> "io::Error", kind |-> kind]

Missing == [kind |-> "missing", bytes |-> <<>>]

Unreadable == [kind |-> "unreadable", bytes |-> <<>>]

Directory == [kind |-> "directory", bytes |-> <<>>]

RegularFile(bytes) == [kind |-> "file", bytes |-> bytes]

FileStates == {Missing, Unreadable, Directory} \cup {RegularFile(b) : b \in FileContents}

FsRead(files, path) ==
    LET f == files[path]
    IN  IF f.kind = "file" THEN [ok |-> TRUE, val |-> f.bytes]
        ELSE IF f.kind = "missing" THEN [ok |-> FALSE, err |-> IoError("NotFound")]
        ELSE IF f.kind = "unreadable" THEN [ok |-> FALSE, err |-> IoError("PermissionDenied")]
        ELSE [ok |-> FALSE, err |-> IoError("IsADirectory")]

(***************************************************************************)
(* anyhow::Error: a chain of causes, outermost first.  Error::from(e)      *)
(* owns e; Error::context(c) puts the message c in front of the chain.     *)
(***************************************************************************)
AnyhowFrom(e) == [chain |-> <<e>>]

ContextMessage(msg) == [type |-> "context", msg |-> msg]

AnyhowContext(err, msg) == [chain |-> <<ContextMessage(msg)>> \o err.chain]

\* the innermost cause of a unified error (Error::root_cause)
RootCause(err) == err.chain[Len(err.chain)]

(***************************************************************************)
(* The error detail of LoadJsonConfig and its Debug rendering.             *)
(***************************************************************************)
LoadJsonConfigAction == {"ReadFile", "ParseFile"}

ErrLoadJsonConfig(context, path, act) ==
    [type |-> "ErrLoadJsonConfig", context |-> context, config_path |-> path,
     action |-> act]

StringDetail(s) == [type |-> "String", value |-> s]

\* a Debug impl whose ReadFile arm prints the ParseFile message
DebugErrLoadJsonConfig_always_parse(detail) ==
    "error when parsing JSON config file at path " \o Display(detail.config_path)

\* impl Debug for ErrLoadJsonConfig
DebugErrLoadJsonConfig(detail) ==
    IF detail.action = "ReadFile"
    THEN "error when reading config file at path " \o Display(detail.config_path)
    ELSE "error when parsing JSON config file at path " \o Display(detail.config_path)

\* format!("{detail:?}"): a String is printed in quotes
DebugDetail(detail) ==
    IF detail.type = "ErrLoadJsonConfig" THEN DebugErrLoadJsonConfig(detail)
    ELSE Quote \o detail.value \o Quote

\* Display: only the String detail implements it
DisplayDetail(detail) == detail.value

ImplementsDisplay(detail) == detail.type = "String"

(***************************************************************************)
(* The providers of src/lib.rs.                                            *)
(***************************************************************************)
\* a raiser that keeps the message of e and drops e
RaiseFrom_message_only(e) == [chain |-> <<ContextMessage(e.type)>>]

\* RaiseFrom::raise_error: e.into()
RaiseFrom(e) == AnyhowFrom(e)

\* WrapWithAnyhowContext::wrap_error: error.context(detail)
WrapWithAnyhowContext(err, detail) == AnyhowContext(err, DisplayDetail(detail))

\* a wrapper that replaces the annotations already there instead of stacking
WrapWithAnyhowDebug_replace(err, detail) ==
    [chain |-> <<ContextMessage(DebugDetail(detail)), RootCause(err)>>]

\* WrapWithAnyhowDebug::wrap_error: error.context(format!("{detail:?}"))
WrapWithAnyhowDebug(err, detail) == AnyhowContext(err, DebugDetail(detail))

\* AppComponents as ConfigPathGetter<App>
ConfigPathGetter(context) == context.config_path

(***************************************************************************)
(* The registries.  A registry is a set of entries key -> value, where a   *)
(* value is a provider or UseDelegate<R>; a registry can also implement a  *)
(* provider trait itself (a direct impl).                                  *)
(***************************************************************************)
Provider(name) == [kind |-> "provider", name |-> name]

UseDelegate(registry) == [kind |-> "UseDelegate", name |-> registry]

Entry(key, value) == [key |-> key, value |-> value]

\* a registry that binds ErrorWrapperComponent twice
AppComponents_ambiguous ==
    {Entry("ErrorTypeComponent", Provider("UseAnyhowError")),
     Entry("ErrorRaiserComponent", UseDelegate("RaiseAppErrors")),
     Entry("ErrorWrapperComponent", UseDelegate("WrapAppErrors")),
     Entry("ErrorWrapperComponent", Provider("WrapWithAnyhowContext")),
     Entry("ConfigLoaderComponent", Provider("LoadJsonConfig"))}

AppComponents ==
    {Entry("ErrorTypeComponent", Provider("UseAnyhowError")),
     Entry("ErrorRaiserComponent", UseDelegate("RaiseAppErrors")),
     Entry("ErrorWrapperComponent", UseDelegate("WrapAppErrors")),
     Entry("ConfigLoaderComponent", Provider("LoadJsonConfig"))}

RaiseAppErrors ==
    {Entry("io::Error", Provider("RaiseFrom")),
     Entry("serde_json::Error", Provider("RaiseFrom"))}

WrapAppErrors == {Entry("ErrLoadJsonConfig", Provider("WrapWithAnyhowDebug"))}

\* impl ProvideConfigType<App> for AppComponents, impl ConfigPathGetter<App> for AppComponents
DirectImpls ==
    {Entry("ConfigTypeComponent", Provider("AppComponents")),
     Entry("ConfigPathGetterComponent", Provider("AppComponents"))}

RegistryNames == {"AppComponents", "RaiseAppErrors", "WrapAppErrors"}

Registry(name) ==
    IF name = "AppComponents" THEN AppComponents \cup DirectImpls
    ELSE IF name = "RaiseAppErrors" THEN RaiseAppErrors
    ELSE WrapAppErrors

\* impl HasComponents for App
HasComponents(context) == "AppComponents"

Bindings(registry, key) == {e.value : e \in {x \in Registry(registry) : x.key = key}}

\* the registries a registry delegates to
Delegates(registry) ==
    {e.value.name : e \in {x \in Registry(registry) : x.value.kind = "UseDelegate"}}

RECURSIVE Resolve(_, _, _, _)
\* the providers that answer (key, discriminant) from a registry, following
\* UseDelegate<R> into R keyed by the discriminant; none once the hops run out
Resolve(registry, key, discriminant, hops) ==
    IF hops = 0 THEN {}
    ELSE UNION {IF b.kind = "provider" THEN {b.name}
                ELSE Resolve(b.name, discriminant, discriminant, hops - 1)
                    : b \in Bindings(registry, key)}

MaxHops == Cardinality(RegistryNames) + 1

ResolveFor(context, key, discriminant) ==
    Resolve(HasComponents(context), key, discriminant, MaxHops)

\* Context::raise_error(e): dispatch on the type of e
RaiseError(context, e) ==
    LET p == CHOOSE q \in ResolveFor(context, "ErrorRaiserComponent", e.type) : TRUE
    IN  [provider |-> p, val |-> RaiseFrom(e)]

\* <Provider as ErrorWrapper>::wrap_error(error, detail)
ApplyWrapper(provider, err, detail) ==
    IF provider = "WrapWithAnyhowDebug" THEN WrapWithAnyhowDebug(err, detail)
    ELSE WrapWithAnyhowContext(err, detail)

\* a wrap_error that hands the raised error back without the annotation
WrapError_skip(context, err, detail) ==
    [provider |-> "WrapWithAnyhowDebug", val |-> err]

\* Context::wrap_error(error, detail): dispatch on the type of the detail
WrapError(context, err, detail) ==
    LET p == CHOOSE q \in ResolveFor(context, "ErrorWrapperComponent", detail.type) : TRUE
    IN  [provider |-> p, val |-> ApplyWrapper(p, err, detail)]

(***************************************************************************)
(* Rendering of errors: Display of the causes, and anyhow's Debug, which   *)
(* prints the outermost message and then the causes beneath it.  Rust's    *)
(* backquotes are written as apostrophes.                                  *)
(***************************************************************************)
IoMessage(kind) ==
    IF kind = "NotFound" THEN "No such file or directory (os error 2)"
    ELSE IF kind = "PermissionDenied" THEN "Permission denied (os error 13)"
    ELSE "Is a directory (os error 21)"

SerdeMessage(code) ==
    IF code = "EofWhileParsingValue" THEN "EOF while parsing a value"
    ELSE IF code = "EofWhileParsingObject" THEN "EOF while parsing an object"
    ELSE IF code = "EofWhileParsingString" THEN "EOF while parsing a string"
    ELSE IF code = "ExpectedSomeValue" THEN "expected value"
    ELSE IF code = "ExpectedColon" THEN "expected ':'"
    ELSE IF code = "ExpectedObjectCommaOrEnd" THEN "expected ',' or '}'"
    ELSE IF code = "KeyMustBeAString" THEN "key must be a string"
    ELSE IF code = "TrailingComma" THEN "trailing comma"
    ELSE IF code = "TrailingCharacters" THEN "trailing characters"
    ELSE IF code = "InvalidEscape" THEN "invalid escape"
    ELSE IF code = "InvalidType" THEN "invalid type, expected struct AppConfig"
    ELSE IF code = "MissingField" THEN "missing field 'secret'"
    ELSE "duplicate field 'secret'"

DisplayCause(c) ==
    IF c.type = "context" THEN c.msg
    ELSE IF c.type = "io::Error" THEN IoMessage(c.kind)
    ELSE SerdeMessage(c.code)

Digits == <<"0", "1", "2", "3", "4", "5", "6", "7", "8", "9">>

\* impl Debug for anyhow::Error, as lines
AnyhowDebug(err) ==
    LET n == Len(err.chain)
    IN  <<DisplayCause(err.chain[1])>>
        \o (IF n = 1 THEN <<>>
            ELSE <<"", "Caused by:">>
                 \o [i \in 1..(n - 1) |->
                        IF n = 2 THEN "    " \o DisplayCause(err.chain[i + 1])
                        ELSE "    " \o Digits[i] \o ": " \o DisplayCause(err.chain[i + 1])])

\* Result::unwrap on Err: the panic message written to stderr
UnwrapPanic(err) ==
    LET d == AnyhowDebug(err)
    IN  <<"thread 'main' panicked at src/main.rs:9:23:",
          "called 'Result::unwrap()' on an 'Err' value: " \o Head(d)>> \o Tail(d)

(***************************************************************************)
(* State.                                                                  *)
(***************************************************************************)
App(path) == [config_path |-> path]

Ok(v) == [ok |-> TRUE, val |-> v]

Err(e) == [ok |-> FALSE, val |-> e]

Running == [status |-> "running", exit_code |-> 0, stderr |-> <<>>]

Event(op, provider, arg) == [op |-> op, provider |-> provider, arg |-> arg]

\* the file the other paths hold: a well-formed config
Decoy == RegularFile(ToJson(AppConfig(SecretKey)))

FileSystem(path, file) == [q \in Paths |-> IF q = path THEN file ELSE Decoy]

\* a caller of the library holds an App with any config path
Init ==
    /\ \E p \in Paths, f \in FileStates :
          /\ app = Some(App(p))
          /\ fs = FileSystem(p, f)
    /\ pc = "entry"
    /\ config_path = None
    /\ config_bytes = None
    /\ source_error = None
    /\ action = None
    /\ error = None
    /\ result = None
    /\ trace = <<>>
    /\ process = Running

(***************************************************************************)
(* LoadJsonConfig::load_config, statement by statement.                    *)
(***************************************************************************)
\* let config_path = context.config_path();
GetConfigPath ==
    /\ pc = "entry"
    /\ config_path' = Some(ConfigPathGetter(app[1]))
    /\ trace' = Append(trace, Event("load_config", "LoadJsonConfig", app[1]))
    /\ pc' = "read"
    /\ UNCHANGED <<app, fs, config_bytes, source_error, action, error, result, process>>

\* a read whose failure is not returned: the parse runs on empty bytes
ReadFile_parse_anyway ==
    /\ pc = "read"
    /\ LET r == FsRead(fs, config_path[1])
       IN  config_bytes' = Some(IF r.ok THEN r.val ELSE <<>>)
    /\ pc' = "parse"
    /\ trace' = Append(trace, Event("fs::read", "std",
                                    [path |-> config_path[1],
                                     ok |-> FsRead(fs, config_path[1]).ok]))
    /\ UNCHANGED <<app, fs, config_path, source_error, action, error, result, process>>

\* let config_bytes = fs::read(config_path).map_err(...)?;
ReadFile ==
    /\ pc = "read"
    /\ LET r == FsRead(fs, config_path[1])
       IN  IF r.ok
           THEN /\ config_bytes' = Some(r.val)
                /\ pc' = "parse"
                /\ UNCHANGED <<source_error, action>>
           ELSE /\ source_error' = Some(r.err)
                /\ action' = Some("ReadFile")
                /\ pc' = "raise"
                /\ UNCHANGED config_bytes
    /\ trace' = Append(trace, Event("fs::read", "std",
                                    [path |-> config_path[1],
                                     ok |-> FsRead(fs, config_path[1]).ok]))
    /\ UNCHANGED <<app, fs, config_path, error, result, process>>

\* a parse whose closure was copied from the read: its action is ReadFile
ParseFile_wrong_action ==
    /\ pc = "parse"
    /\ LET r == FromSlice(config_bytes[1])
       IN  IF r.ok
           THEN /\ result' = Some(Ok(r.val))
                /\ pc' = "returned"
                /\ UNCHANGED <<source_error, action>>
           ELSE /\ source_error' = Some(r.err)
                /\ action' = Some("ReadFile")
                /\ pc' = "raise"
                /\ UNCHANGED result
    /\ trace' = Append(trace, Event("serde_json::from_slice", "serde_json",
                                    [path |-> config_path[1],
                                     ok |-> FromSlice(config_bytes[1]).ok]))
    /\ UNCHANGED <<app, fs, config_path, config_bytes, error, process>>

\* let config = serde_json::from_slice(&config_bytes).map_err(...)?; Ok(config)
ParseFile ==
    /\ pc = "parse"
    /\ LET r == FromSlice(config_bytes[1])
       IN  IF r.ok
           THEN /\ result' = Some(Ok(r.val))
                /\ pc' = "returned"
                /\ UNCHANGED <<source_error, action>>
           ELSE /\ source_error' = Some(r.err)
                /\ action' = Some("ParseFile")
                /\ pc' = "raise"
                /\ UNCHANGED result
    /\ trace' = Append(trace, Event("serde_json::from_slice", "serde_json",
                                    [path |-> config_path[1],
                                     ok |-> FromSlice(config_bytes[1]).ok]))
    /\ UNCHANGED <<app, fs, config_path, config_bytes, error, process>>

\* the closure's first argument: Context::raise_error(e)
RaiseSourceError ==
    /\ pc = "raise"
    /\ LET r == RaiseError(app[1], source_error[1])
       IN  /\ error' = Some(r.val)
           /\ trace' = Append(trace, Event("raise_error", r.provider, source_error[1]))
    /\ pc' = "wrap"
    /\ UNCHANGED <<app, fs, config_path, config_bytes, source_error, action, result,
                   process>>

\* a closure that raises the source error a second time before wrapping
WrapRaisedError_reraise ==
    /\ pc = "wrap"
    /\ LET detail == ErrLoadJsonConfig(app[1], config_path[1], action[1])
           again == RaiseError(app[1], source_error[1])
           r == WrapError(app[1], again.val, detail)
       IN  /\ result' = Some(Err(r.val))
           /\ trace' = trace \o <<Event("raise_error", again.provider, source_error[1]),
                                   Event("wrap_error", r.provider, detail)>>
    /\ error' = None
    /\ pc' = "returned"
    /\ UNCHANGED <<app, fs, config_path, config_bytes, source_error, action, process>>

\* Context::wrap_error(.., ErrLoadJsonConfig { context, config_path, action }), then `?`
WrapRaisedError ==
    /\ pc = "wrap"
    /\ LET detail == ErrLoadJsonConfig(app[1], config_path[1], action[1])
           r == WrapError(app[1], error[1], detail)
       IN  /\ result' = Some(Err(r.val))
           /\ trace' = Append(trace, Event("wrap_error", r.provider, detail))
    /\ error' = None
    /\ pc' = "returned"
    /\ UNCHANGED <<app, fs, config_path, config_bytes, source_error, action, process>>

LoadConfig == GetConfigPath \/ ReadFile \/ ParseFile \/ RaiseSourceError \/ WrapRaisedError

Next == LoadConfig

Spec == Init /\ [][Next]_vars

(***************************************************************************)
(* main: App { config_path: "Cargo.toml".into() }; load_config().unwrap()  *)
(***************************************************************************)
MainInit ==
    /\ app = None
    /\ \E f \in FileStates : fs = FileSystem(MainConfigPath, f)
    /\ pc = "main"
    /\ config_path = None
    /\ config_bytes = None
    /\ source_error = None
    /\ action = None
    /\ error = None
    /\ result = None
    /\ trace = <<>>
    /\ process = Running

MainConstructApp ==
    /\ pc = "main"
    /\ app' = Some(App(MainConfigPath))
    /\ trace' = Append(trace, Event("App", "main", App(MainConfigPath)))
    /\ pc' = "entry"
    /\ UNCHANGED <<fs, config_path, config_bytes, source_error, action, error, result,
                   process>>

\* a main that drops the result: let _ = app.load_config();
MainUnwrap_ignore_error ==
    /\ pc = "returned"
    /\ process' = [status |-> "exited", exit_code |-> 0, stderr |-> <<>>]
    /\ pc' = "exited"
    /\ UNCHANGED <<app, fs, config_path, config_bytes, source_error, action, error,
                   result, trace>>

MainUnwrap ==
    /\ pc = "returned"
    /\ process' = IF result[1].ok
                  THEN [status |-> "exited", exit_code |-> 0, stderr |-> <<>>]
                  ELSE [status |-> "panicked", exit_code |-> 101,
                        stderr |-> UnwrapPanic(result[1].val)]
    /\ pc' = "exited"
    /\ UNCHANGED <<app, fs, config_path, config_bytes, source_error, action, error,
                   result, trace>>

MainNext == MainConstructApp \/ LoadConfig \/ MainUnwrap

MainSpec == MainInit /\ [][MainNext]_vars

(***************************************************************************)
(* wrap_error stacked on a raised error: any source error is raised by     *)
(* App's raiser, then wrapped up to MaxWraps times by either wrapper       *)
(* provider with any detail the provider's bounds admit.                   *)
(***************************************************************************)
IoKinds == {"NotFound", "PermissionDenied", "IsADirectory"}

SerdeCodes ==
    {<<"Eof", "EofWhileParsingValue">>, <<"Eof", "EofWhileParsingObject">>,
     <<"Eof", "EofWhileParsingString">>, <<"Syntax", "ExpectedSomeValue">>,
     <<"Syntax", "ExpectedColon">>, <<"Syntax", "ExpectedObjectCommaOrEnd">>,
     <<"Syntax", "KeyMustBeAString">>, <<"Syntax", "TrailingComma">>,
     <<"Syntax", "TrailingCharacters">>, <<"Syntax", "InvalidEscape">>,
     <<"Data", "InvalidType">>, <<"Data", "MissingField">>,
     <<"Data", "DuplicateField">>}

SourceErrors == {IoError(k) : k \in IoKinds} \cup {SerdeError(c[1], c[2]) : c \in SerdeCodes}

Details ==
    {ErrLoadJsonConfig(App(p), p, a) : p \in Paths, a \in LoadJsonConfigAction}
        \cup {StringDetail(s) : s \in {"loading config", "starting app"}}

WrapperProviders == {"WrapWithAnyhowContext", "WrapWithAnyhowDebug"}

\* the `where` clause of the wrapper provider: Detail: Display, or Detail: Debug
WrapperAdmits(provider, detail) ==
    provider = "WrapWithAnyhowContext" => ImplementsDisplay(detail)

WrapEvents == SelectSeq(trace, LAMBDA ev : ev.op = "wrap_error")

WrapInit ==
    /\ app = Some(App(MainConfigPath))
    /\ fs = FileSystem(MainConfigPath, Missing)
    /\ pc = "raise"
    /\ config_path = None
    /\ config_bytes = None
    /\ \E e \in SourceErrors : source_error = Some(e)
    /\ action = None
    /\ error = None
    /\ result = None
    /\ trace = <<>>
    /\ process = Running

WrapAgain ==
    /\ pc = "wrap"
    /\ Len(WrapEvents) < MaxWraps
    /\ \E provider \in WrapperProviders, detail \in Details :
          /\ WrapperAdmits(provider, detail)
          /\ error' = Some(ApplyWrapper(provider, error[1], detail))
          /\ trace' = Append(trace, Event("wrap_error", provider, detail))
    /\ UNCHANGED <<app, fs, pc, config_path, config_bytes, source_error, action, result,
                   process>>

WrapNext == RaiseSourceError \/ WrapAgain

WrapSpec == WrapInit /\ [][WrapNext]_vars

(***************************************************************************)
(* Properties.                                                             *)
(***************************************************************************)
Count(op) == Len(SelectSeq(trace, LAMBDA ev : ev.op = op))

\* the positions of the calls of op in the trace
Positions(op) == {i \in 1..Len(trace) : trace[i].op = op}

\* the file at the path the context holds
TargetFile == fs[app[1].config_path]

ReadAnnotation(path) == "error when reading config file at path " \o Display(path)

ParseAnnotation(path) == "error when parsing JSON config file at path " \o Display(path)

ExpectedIoError(file) ==
    IF file.kind = "missing" THEN IoError("NotFound")
    ELSE IF file.kind = "unreadable" THEN IoError("PermissionDenied")
    ELSE IoError("IsADirectory")

ReturnedErr == pc = "returned" /\ result # None /\ ~result[1].ok

ReturnedOk == pc = "returned" /\ result # None /\ result[1].ok

\* C1: when the read of the config file fails, load_config returns Err: the
\* raised io::Error wrapped with exactly the ReadFile annotation for the path
\* the context holds, and never the ParseFile annotation.
C1_ReadFailureWrapped ==
    (pc = "returned" /\ TargetFile.kind # "file") =>
        /\ ReturnedErr
        /\ result[1].val.chain =
              <<ContextMessage(ReadAnnotation(app[1].config_path)),
                ExpectedIoError(TargetFile)>>
        /\ result[1].val.chain[1].msg # ParseAnnotation(app[1].config_path)
        /\ \A i \in Positions("wrap_error") :
              /\ trace[i].arg.config_path = app[1].config_path
              /\ trace[i].arg.action = "ReadFile"

C1_Witness ==
    /\ ReturnedErr
    /\ TargetFile.kind = "missing"
    /\ app[1].config_path # MainConfigPath
    /\ Count("wrap_error") = 1

\* C2: when the file is readable and its bytes do not parse as the config
\* (malformed JSON or JSON that does not match the schema), load_config returns
\* Err: the raised serde_json::Error wrapped with exactly the ParseFile
\* annotation for the path, and never the ReadFile annotation.
C2_ParseFailureWrapped ==
    (pc = "returned" /\ TargetFile.kind = "file" /\ ~FromSlice(TargetFile.bytes).ok) =>
        /\ ReturnedErr
        /\ result[1].val.chain =
              <<ContextMessage(ParseAnnotation(app[1].config_path)),
                FromSlice(TargetFile.bytes).err>>
        /\ result[1].val.chain[2].type = "serde_json::Error"
        /\ result[1].val.chain[1].msg # ReadAnnotation(app[1].config_path)
        /\ \A i \in Positions("wrap_error") :
              /\ trace[i].arg.config_path = app[1].config_path
              /\ trace[i].arg.action = "ParseFile"

C2_Witness ==
    /\ ReturnedErr
    /\ TargetFile.kind = "file"
    /\ result[1].val.chain[2].type = "serde_json::Error"
    /\ result[1].val.chain[2].category = "Data"
    /\ result[1].val.chain[1].msg = ParseAnnotation(app[1].config_path)

\* C3: when the file at the config path holds the JSON encoding of a config
\* value c, load_config returns Ok(c); and load_config returns Ok only when the
\* read succeeded and the bytes parsed to the value returned.
C3_ConfigRoundTrip ==
    pc = "returned" =>
        /\ \A c \in ConfigValues :
              TargetFile = RegularFile(ToJson(c)) => result = Some(Ok(c))
        /\ ReturnedOk =>
              /\ TargetFile.kind = "file"
              /\ Count("fs::read") = 1
              /\ \A i \in Positions("fs::read") : trace[i].arg.ok
              /\ \A i \in Positions("serde_json::from_slice") : trace[i].arg.ok
              /\ FromSlice(TargetFile.bytes).ok
              /\ FromSlice(TargetFile.bytes).val = result[1].val

C3_Witness ==
    /\ ReturnedOk
    /\ TargetFile = RegularFile(ToJson(AppConfig(<<Quote>>)))
    /\ result[1].val.secret = <<Quote>>

\* C4: raise_error through App's raiser keeps the source error unchanged as
\* the innermost (and only) cause of the unified error, for io::Error and
\* serde_json::Error alike, and raising is always possible.
C4_RaiserLossless ==
    /\ pc = "raise" =>
          /\ source_error # None
          /\ ResolveFor(app[1], "ErrorRaiserComponent", source_error[1].type) # {}
          /\ ENABLED RaiseSourceError
    /\ pc = "wrap" =>
          /\ error # None
          /\ error[1].chain = <<source_error[1]>>
          /\ RootCause(error[1]) = source_error[1]
    /\ ReturnedErr => RootCause(result[1].val) = source_error[1]

C4_Witness ==
    /\ pc = "wrap"
    /\ source_error[1].type = "serde_json::Error"
    /\ RootCause(error[1]) = source_error[1]

\* the annotation a wrapper provider makes of a detail
Annotation(provider, detail) ==
    IF provider = "WrapWithAnyhowDebug" THEN DebugDetail(detail) ELSE DisplayDetail(detail)

\* C5: after wrapping a raised error with D1, ..., Dn in that order, the chain
\* holds the n annotations, the last wrapped outermost, and beneath them the
\* raised error's chain unchanged, the source error innermost: each
\* wrap_error call adds exactly one annotation in front and removes none.
C5_WrapperStacking ==
    (pc = "wrap" /\ error # None) =>
        LET n == Len(WrapEvents)
        IN  /\ Len(error[1].chain) = n + 1
            /\ \A i \in 1..n :
                  error[1].chain[i] =
                      ContextMessage(Annotation(WrapEvents[n + 1 - i].provider,
                                                WrapEvents[n + 1 - i].arg))
            /\ error[1].chain[n + 1] = source_error[1]
            /\ RootCause(error[1]) = source_error[1]

C5_Witness ==
    /\ pc = "wrap"
    /\ Len(WrapEvents) = 2
    /\ WrapEvents[1].arg # WrapEvents[2].arg
    /\ WrapEvents[1].provider # WrapEvents[2].provider
    /\ error[1].chain[1].msg # error[1].chain[2].msg

\* C6: when load_config returns Err, exactly one step failed, raise_error was
\* called exactly once, on that step's error and right after that step;
\* wrap_error was called exactly once, after the raise; and the returned error
\* still ends in the source error.  When it returns Ok, nothing was raised.
C6_RaiseOnce ==
    /\ ReturnedErr =>
          /\ Cardinality({i \in 1..Len(trace) :
                            trace[i].op \in {"fs::read", "serde_json::from_slice"}
                            /\ ~trace[i].arg.ok}) = 1
          /\ Count("raise_error") = 1
          /\ Count("wrap_error") = 1
          /\ \A r \in Positions("raise_error") :
                /\ trace[r].arg = source_error[1]
                /\ r > 1
                /\ trace[r - 1].op \in {"fs::read", "serde_json::from_slice"}
                /\ ~trace[r - 1].arg.ok
                /\ \A w \in Positions("wrap_error") : w = r + 1
          /\ RootCause(result[1].val) = source_error[1]
    /\ ReturnedOk => Count("raise_error") = 0 /\ Count("wrap_error") = 0
    /\ Count("raise_error") <= 1
    /\ Count("wrap_error") <= Count("raise_error")

C6_Witness ==
    /\ ReturnedErr
    /\ Count("raise_error") = 1
    /\ Count("wrap_error") = 1
    /\ Count("serde_json::from_slice") = 1
    /\ source_error[1].category = "Syntax"

\* the (capability, discriminant) pairs App uses, with the provider of each
UsedBindings ==
    {<<"ConfigLoaderComponent", "", "LoadJsonConfig">>,
     <<"ErrorTypeComponent", "", "UseAnyhowError">>,
     <<"ErrorRaiserComponent", "io::Error", "RaiseFrom">>,
     <<"ErrorRaiserComponent", "serde_json::Error", "RaiseFrom">>,
     <<"ErrorWrapperComponent", "ErrLoadJsonConfig", "WrapWithAnyhowDebug">>,
     <<"ConfigTypeComponent", "", "AppComponents">>,
     <<"ConfigPathGetterComponent", "", "AppComponents">>}

RECURSIVE Reaches(_, _, _)
\* whether registry `from` reaches registry `to` in at most `hops` delegations
Reaches(from, to, hops) ==
    /\ hops > 0
    /\ \E d \in Delegates(from) : d = to \/ Reaches(d, to, hops - 1)

\* C7: from AppComponents every (capability, discriminant) pair the context
\* uses resolves, within the hops a registry chain can have, to exactly one
\* provider, the one the source binds; no key of a registry has two bindings;
\* delegation is acyclic; and the calls made ran the provider resolved.
C7_ResolutionDeterministic ==
    /\ \A u \in UsedBindings : ResolveFor(app[1], u[1], u[2]) = {u[3]}
    /\ \A r \in RegistryNames :
          \A e \in Registry(r) : Cardinality(Bindings(r, e.key)) = 1
    /\ \A r \in RegistryNames : ~Reaches(r, r, Cardinality(RegistryNames))
    /\ \A i \in Positions("raise_error") :
          {trace[i].provider} = ResolveFor(app[1], "ErrorRaiserComponent", trace[i].arg.type)
    /\ \A i \in Positions("wrap_error") :
          {trace[i].provider} = ResolveFor(app[1], "ErrorWrapperComponent", trace[i].arg.type)

C7_Witness ==
    /\ pc = "returned"
    /\ \E i \in Positions("raise_error") :
          trace[i].provider = "RaiseFrom" /\ trace[i].arg.type = "serde_json::Error"
    /\ \E i \in Positions("wrap_error") :
          trace[i].provider = "WrapWithAnyhowDebug" /\ trace[i].arg.type = "ErrLoadJsonConfig"

\* C8: whatever the file at the config path is, load_config can always take
\* its next step until it has returned, it returns within five calls, and what
\* it returns is Ok(config), or Err of a read annotation over an io::Error, or
\* Err of a parse annotation over a serde_json::Error; nothing else.
C8_Totality ==
    /\ pc # "returned" => ENABLED Next
    /\ pc \in {"entry", "read", "parse", "raise", "wrap", "returned"}
    /\ Len(trace) <= 5
    /\ pc # "returned" => result = None
    /\ pc = "returned" =>
          /\ result # None
          /\ \/ /\ result[1].ok
                /\ DOMAIN result[1].val = {"secret"}
                /\ TargetFile.kind = "file"
             \/ /\ ~result[1].ok
                /\ Len(result[1].val.chain) = 2
                /\ \/ /\ result[1].val.chain[1] =
                            ContextMessage(ReadAnnotation(app[1].config_path))
                      /\ result[1].val.chain[2].type = "io::Error"
                      /\ TargetFile.kind # "file"
                   \/ /\ result[1].val.chain[1] =
                            ContextMessage(ParseAnnotation(app[1].config_path))
                      /\ result[1].val.chain[2].type = "serde_json::Error"
                      /\ TargetFile.kind = "file"

C8_Witness ==
    /\ ReturnedErr
    /\ TargetFile.kind = "unreadable"
    /\ Len(trace) = 4
    /\ result[1].val.chain[2].type = "io::Error"

\* C9: main constructs one App, with the config path Cargo.toml, and calls
\* load_config once; when the call returned Err the process ends with a
\* non-zero exit status after printing the error chain, the wrap annotation
\* first and the source error beneath it; it ends with status 0 only when the
\* call returned Ok.
C9_MainEntryPoint ==
    /\ Count("App") <= 1
    /\ Count("load_config") <= 1
    /\ app # None => app[1].config_path = <<"Cargo.toml">>
    /\ pc # "exited" => process.status = "running"
    /\ pc = "exited" =>
          /\ Count("App") = 1
          /\ Count("load_config") = 1
          /\ Count("fs::read") = 1
          /\ ~result[1].ok =>
                /\ process.status = "panicked"
                /\ process.exit_code # 0
                /\ process.stderr =
                      <<"thread 'main' panicked at src/main.rs:9:23:",
                        "called 'Result::unwrap()' on an 'Err' value: "
                            \o result[1].val.chain[1].msg,
                        "",
                        "Caused by:",
                        "    " \o DisplayCause(source_error[1])>>
                /\ result[1].val.chain[1].msg \in
                      {ReadAnnotation(<<"Cargo.toml">>), ParseAnnotation(<<"Cargo.toml">>)}
          /\ (process.status = "exited" /\ process.exit_code = 0) <=> result[1].ok
          /\ result[1].ok => process.stderr = <<>>

C9_Witness ==
    /\ pc = "exited"
    /\ process.status = "panicked"
    /\ process.exit_code = 101
    /\ Len(process.stderr) = 5
    /\ source_error[1] = SerdeError("Data", "MissingField")

\* C10: a call of load_config reads the file at most once and parses at most
\* once, parses only after the read has succeeded (a failed read is followed
\* by no parse), repeats neither step, and leaves the context as it was when
\* the call began.
C10_SingleAttempt ==
    /\ Count("fs::read") <= 1
    /\ Count("serde_json::from_slice") <= 1
    /\ \A i \in Positions("serde_json::from_slice") :
          /\ i > 1
          /\ trace[i - 1].op = "fs::read"
          /\ trace[i - 1].arg.ok
    /\ \A i \in Positions("fs::read") :
          /\ trace[i].arg.path = app[1].config_path
          /\ ~trace[i].arg.ok => Count("serde_json::from_slice") = 0
    /\ \A i \in Positions("load_config") : trace[i].arg = app[1]
    /\ pc = "returned" => Count("load_config") = 1 /\ Count("fs::read") = 1
    /\ config_path # None => config_path[1] = app[1].config_path

C10_Witness ==
    /\ pc = "returned"
    /\ Count("fs::read") = 1
    /\ Count("serde_json::from_slice") = 0
    /\ TargetFile.kind = "directory"
    /\ trace[1].arg = app[1]

====
